---- MODULE Spec2Model ----
(***************************************************************************)
(* Vote indexer repository (voteindexer/repository/repository.go).         *)
(*                                                                         *)
(* The relational store is modelled as                                     *)
(*   votes    - the partitioned vote table.  The surrogate id is assigned  *)
(*              by storage and excluded from the insert payload, so the    *)
(*              table is a multiset (bag) of payload rows; the partition   *)
(*              of a row is decided by its chain_info_id.                  *)
(*   pointers - the index pointer table, a set of rows unique on           *)
(*              (chain_info_id, index_name).                               *)
(*   lock     - the row locks on pointer rows held by open transactions.   *)
(* and every caller p of the repository has                                *)
(*   pc[p]    - its position inside InsertValidatorVoteList's transaction, *)
(*   args[p]  - the arguments of its current (or last) call,               *)
(*   tx[p]    - the uncommitted effects of its open transaction,           *)
(*   ret[p]   - what its last call returned,                               *)
(*   hist[p]  - history: storage when the call started, storage when the   *)
(*              first attempt of a retried call started, and how the call  *)
(*              relates to the caller's previous one.                      *)
(***************************************************************************)
EXTENDS Integers, Sequences, FiniteSets, Bags, TLC

VARIABLES votes, pointers, lock, pc, args, tx, ret, hist

vars == <<votes, pointers, lock, pc, args, tx, ret, hist>>

(* ------------------------------------------------------------------ *)
(* Program constants                                                   *)
(* ------------------------------------------------------------------ *)

IndexName == "voteindexer"

\* the other index streams whose pointer rows share the pointer table
OtherIndexName == "otherindexer"

Window == 100

Missed == 1

Committed == 2

Proposed == 3

(* ------------------------------------------------------------------ *)
(* Bounds of the model                                                 *)
(* ------------------------------------------------------------------ *)

\* number of monitored chains
NumChains == 2

\* timestamps and clock readings are 0..MaxTime
MaxTime == 2

\* pointer heights passed by callers are 1..MaxHeight
MaxHeight == 2

\* longest vote batch handed to one call
MaxBatch == 2

\* most rows the vote table holds
MaxRows == 3

Chains == 1..NumChains

Times == 0..MaxTime

PointerHeights == 1..MaxHeight

\* callers of the repository
Writers == {"w1"}

Procs == {"w1", "w2"}

Statuses == {Missed, Committed, Proposed}

(* ------------------------------------------------------------------ *)
(* Rows                                                                *)
(* ------------------------------------------------------------------ *)

VoteRows(C, H, V, S, T) ==
    [chain_info_id : C, height : H, validator_hex_address_id : V,
     status : S, timestamp : T]

\* vote rows whose timestamps straddle every cutoff
PruneVotes == VoteRows(Chains, {1}, {1}, {Missed}, Times)

\* the non-empty batches of at most n rows of U
Batches(U, n) == UNION {[1..k -> U] : k \in 1..n}

SeqToBag(s) ==
    LET rng == {s[i] : i \in DOMAIN s}
    IN  [r \in rng |-> Cardinality({i \in DOMAIN s : s[i] = r})]

\* the rows of bag b that satisfy Keep, with their multiplicities
BagFilter(b, Keep(_)) == [r \in {x \in DOMAIN b : Keep(x)} |-> b[r]]

SetMax(S) == CHOOSE m \in S : \A x \in S : x <= m

\* seeded fault: MIN(height) written as MAX(height)
SetMinAsMax(S) == SetMax(S)

SetMin(S) == CHOOSE m \in S : \A x \in S : m <= x

(* ------------------------------------------------------------------ *)
(* External collaborators                                              *)
(* ------------------------------------------------------------------ *)

\* dbhelper.MakePartitionTableName: an injective name per (index, chain)
MakePartitionTableName(indexName, chainID) == <<indexName, chainID>>

\* the partition the storage routes a vote row to
PartitionOf(r) == MakePartitionTableName(IndexName, r.chain_info_id)

\* the retention period specifications callers pass
RetentionPeriods == {"1t", "0t", "-1t", "bad"}

\* dbhelper.ParseRetentionPeriod: a signed duration, or an error
ParseRetentionPeriod(retentionPeriod) ==
    CASE retentionPeriod = "1t"  -> [err |-> "nil", duration |-> 0 - 1]
      [] retentionPeriod = "0t"  -> [err |-> "nil", duration |-> 0]
      [] retentionPeriod = "-1t" -> [err |-> "nil", duration |-> 1]
      [] OTHER                   -> [err |-> "parse", duration |-> 0]

\* meta.validator_info, populated externally: id is its key, moniker is not
ValidatorInfo ==
    { [id |-> 1, moniker |-> "alice"],
      [id |-> 2, moniker |-> "bob"],
      [id |-> 3, moniker |-> "alice"] }

(* ------------------------------------------------------------------ *)
(* Statements                                                          *)
(* ------------------------------------------------------------------ *)

\* seeded fault: the update without its index_name filter
UpdateIndexPointerAnyIndex(ptrs, chainInfoID, indexPointerHeight) ==
    { IF r.chain_info_id = chainInfoID
        THEN [r EXCEPT !.pointer = indexPointerHeight]
        ELSE r : r \in ptrs }

\* seeded fault: the update without its chain_info_id filter
UpdateIndexPointerAnyChain(ptrs, chainInfoID, indexPointerHeight) ==
    { IF r.index_name = IndexName
        THEN [r EXCEPT !.pointer = indexPointerHeight]
        ELSE r : r \in ptrs }

\* seeded fault: the update advances the pointer by the height instead of setting it
UpdateIndexPointerAdd(ptrs, chainInfoID, indexPointerHeight) ==
    { IF r.chain_info_id = chainInfoID /\ r.index_name = IndexName
        THEN [r EXCEPT !.pointer = r.pointer + indexPointerHeight]
        ELSE r : r \in ptrs }

\* seeded fault: the update creates the pointer row when none matches
UpdateIndexPointerUpsert(ptrs, chainInfoID, indexPointerHeight) ==
    { r \in ptrs : ~(r.chain_info_id = chainInfoID /\ r.index_name = IndexName) }
    \cup {[chain_info_id |-> chainInfoID, index_name |-> IndexName,
           pointer |-> indexPointerHeight]}

\* seeded fault: the update only ever raises the pointer
UpdateIndexPointerIfHigher(ptrs, chainInfoID, indexPointerHeight) ==
    { IF r.chain_info_id = chainInfoID /\ r.index_name = IndexName
         /\ r.pointer < indexPointerHeight
        THEN [r EXCEPT !.pointer = indexPointerHeight]
        ELSE r : r \in ptrs }

\* UPDATE index_pointer SET pointer = ? WHERE chain_info_id = ? AND index_name = ?
UpdateIndexPointer(ptrs, chainInfoID, indexPointerHeight) ==
    { IF r.chain_info_id = chainInfoID /\ r.index_name = IndexName
        THEN [r EXCEPT !.pointer = indexPointerHeight]
        ELSE r : r \in ptrs }

\* the pointer rows the update statement matches (and locks)
PointerKeys(ptrs, chainInfoID) ==
    { <<r.chain_info_id, r.index_name>> :
        r \in {x \in ptrs : x.chain_info_id = chainInfoID /\ x.index_name = IndexName} }

\* INSERT of the whole list, the id column excluded
BulkInsert(tbl, ValidatorVoteList) == tbl (+) SeqToBag(ValidatorVoteList)

\* the rows of one partition
Partition(tbl, partitionTableName) ==
    BagFilter(tbl, LAMBDA r : PartitionOf(r) = partitionTableName)

\* seeded fault: the delete takes the rows at the cutoff too
DeleteBeforeInclusive(tbl, partitionTableName, cutoffTime) ==
    BagFilter(tbl, LAMBDA r : ~(PartitionOf(r) = partitionTableName
                                /\ r.timestamp <= cutoffTime))

\* DELETE FROM partition WHERE timestamp < cutoffTime: the rows that stay
DeleteBefore(tbl, partitionTableName, cutoffTime) ==
    BagFilter(tbl, LAMBDA r : ~(PartitionOf(r) = partitionTableName
                                /\ r.timestamp < cutoffTime))

\* seeded fault: the count of the rows older than the cutoff in every partition
RowsAffectedAnyPartition(tbl, partitionTableName, cutoffTime) ==
    BagCardinality(BagFilter(tbl, LAMBDA r : r.timestamp < cutoffTime))

\* res.RowsAffected() of that delete
RowsAffected(tbl, partitionTableName, cutoffTime) ==
    BagCardinality(tbl) - BagCardinality(DeleteBefore(tbl, partitionTableName, cutoffTime))

\* seeded fault: the window's lower edge is inclusive
InWindowInclusive(part) ==
    LET hs == {r.height : r \in DOMAIN part}
    IN  IF hs = {} THEN EmptyBag
        ELSE BagFilter(part, LAMBDA r :
                 /\ r.height >= SetMax(hs) - Window
                 /\ \E vi \in ValidatorInfo : vi.id = r.validator_hex_address_id)

\* WHERE height > ((SELECT MAX(height) FROM partition) - 100), after the JOIN;
\* over an empty partition MAX is NULL and the comparison selects nothing
InWindow(part) ==
    LET hs == {r.height : r \in DOMAIN part}
    IN  IF hs = {} THEN EmptyBag
        ELSE BagFilter(part, LAMBDA r :
                 /\ r.height > SetMax(hs) - Window
                 /\ \E vi \in ValidatorInfo : vi.id = r.validator_hex_address_id)

MonikerOf(r) ==
    (CHOOSE vi \in ValidatorInfo : vi.id = r.validator_hex_address_id).moniker

\* seeded fault: the CASE is dropped, every row of the group is counted
CountStatusAny(group, s) == BagCardinality(group)

\* COUNT(CASE WHEN status = s THEN 1 END) of one group
CountStatus(group, s) == BagCardinality(BagFilter(group, LAMBDA r : r.status = s))

\* seeded fault: the aggregates without GROUP BY, one row whatever the input
RecentMissQueryUngrouped(tbl, partitionTableName) ==
    LET win == InWindow(Partition(tbl, partitionTableName))
        hs == {r.height : r \in DOMAIN win}
    IN  { [moniker    |-> "",
           max_height |-> IF hs = {} THEN 0 ELSE SetMax(hs),
           min_height |-> IF hs = {} THEN 0 ELSE SetMin(hs),
           missed     |-> CountStatus(win, Missed),
           commited   |-> CountStatus(win, Committed),
           proposed   |-> CountStatus(win, Proposed)] }

\* seeded fault: GROUP BY vi.id, one row per validator
RecentMissQueryByValidator(tbl, partitionTableName) ==
    LET win == InWindow(Partition(tbl, partitionTableName))
        grp(v) == BagFilter(win, LAMBDA r : r.validator_hex_address_id = v)
    IN  { [moniker    |-> (CHOOSE vi \in ValidatorInfo : vi.id = v).moniker,
           max_height |-> SetMax({r.height : r \in DOMAIN grp(v)}),
           min_height |-> SetMin({r.height : r \in DOMAIN grp(v)}),
           missed     |-> CountStatus(grp(v), Missed),
           commited   |-> CountStatus(grp(v), Committed),
           proposed   |-> CountStatus(grp(v), Proposed)] :
          v \in {r.validator_hex_address_id : r \in DOMAIN win} }

\* the SELECT ... GROUP BY vi.moniker of SelectRecentMissValidatorVoteList
RecentMissQuery(tbl, partitionTableName) ==
    LET win == InWindow(Partition(tbl, partitionTableName))
        grp(m) == BagFilter(win, LAMBDA r : MonikerOf(r) = m)
    IN  { [moniker    |-> m,
           max_height |-> SetMax({r.height : r \in DOMAIN grp(m)}),
           min_height |-> SetMin({r.height : r \in DOMAIN grp(m)}),
           missed     |-> CountStatus(grp(m), Missed),
           commited   |-> CountStatus(grp(m), Committed),
           proposed   |-> CountStatus(grp(m), Proposed)] :
          m \in {MonikerOf(r) : r \in DOMAIN win} }

(* ------------------------------------------------------------------ *)
(* State of the callers                                                *)
(* ------------------------------------------------------------------ *)

Store == [votes |-> votes, pointers |-> pointers]

NoArgs == [op |-> "none"]

NoTx == [rows |-> EmptyBag, pointer |-> {}]

NoRet == [err |-> "none", deleted |-> 0, rvvList |-> {}]

Returned(e, n, l) == [err |-> e, deleted |-> n, rvvList |-> l]

InsertArgs(chainInfoID, indexPointerHeight, ValidatorVoteList) ==
    [op |-> "insert", chainInfoID |-> chainInfoID,
     indexPointerHeight |-> indexPointerHeight,
     ValidatorVoteList |-> ValidatorVoteList]

SelectArgs(chainID) == [op |-> "select", chainID |-> chainID]

\* now is the reading of time.Now() inside the call
DeleteArgs(chainID, retentionPeriod, now) ==
    [op |-> "delete", chainID |-> chainID,
     retentionPeriod |-> retentionPeriod, now |-> now]

\* seeded fault: the cutoff is the clock reading, the duration dropped
CutoffTimeNow(a) == a.now

\* seeded fault: the duration is always taken as a look-back
CutoffTimeLookBack(a) ==
    LET d == ParseRetentionPeriod(a.retentionPeriod).duration
    IN  a.now - (IF d < 0 THEN 0 - d ELSE d)

\* cutoffTime := time.Now().Add(duration)
CutoffTime(a) == a.now + ParseRetentionPeriod(a.retentionPeriod).duration

\* a pointer row another caller's open transaction has locked
LockedByOther(p, keys) == \E q \in Procs \ {p} : lock[q] \cap keys # {}

\* the cutoff the contract gives the delete call a: now + duration
Cutoff(a) == a.now + ParseRetentionPeriod(a.retentionPeriod).duration

\* how the call a relates to the call p made before it
Relation(p, a) ==
    IF pc[p] # "done" THEN "fresh"
    ELSE IF a = args[p] /\ a.op = "insert" /\ ret[p].err # "nil" THEN "retry"
    ELSE IF a = args[p] /\ ret[p].err = "nil" THEN "repeat"
    ELSE IF /\ a.op = "delete" /\ args[p].op = "delete" /\ ret[p].err = "nil"
            /\ a.chainID = args[p].chainID
            /\ ParseRetentionPeriod(a.retentionPeriod).err = "nil"
            /\ Cutoff(a) <= Cutoff(args[p])
         THEN "reprune"
    ELSE "fresh"

\* history kept when p starts the call a
Started(p, a) ==
    [pre    |-> Store,
     origin |-> IF Relation(p, a) = "retry" THEN hist[p].origin ELSE Store,
     rel    |-> Relation(p, a)]

CanCall(p) == pc[p] \in {"idle", "done"}

Init ==
    /\ votes = EmptyBag
    /\ \E provisioned \in SUBSET Chains :
          pointers =
             {[chain_info_id |-> c, index_name |-> OtherIndexName, pointer |-> 0] :
                 c \in Chains}
             \cup
             {[chain_info_id |-> c, index_name |-> IndexName, pointer |-> 0] :
                 c \in provisioned}
    /\ lock = [p \in Procs |-> {}]
    /\ pc = [p \in Procs |-> "idle"]
    /\ args = [p \in Procs |-> NoArgs]
    /\ tx = [p \in Procs |-> NoTx]
    /\ ret = [p \in Procs |-> NoRet]
    /\ hist = [p \in Procs |->
                 [pre    |-> [votes |-> EmptyBag, pointers |-> pointers],
                  origin |-> [votes |-> EmptyBag, pointers |-> pointers],
                  rel    |-> "fresh"]]

(* ------------------------------------------------------------------ *)
(* InsertValidatorVoteList                                             *)
(* ------------------------------------------------------------------ *)

\* the call returns e; an open transaction is rolled back by RunInTx
Fail(p, e) ==
    /\ pc' = [pc EXCEPT ![p] = "done"]
    /\ ret' = [ret EXCEPT ![p] = Returned(e, 0, {})]
    /\ tx' = [tx EXCEPT ![p] = NoTx]
    /\ lock' = [lock EXCEPT ![p] = {}]
    /\ UNCHANGED <<votes, pointers>>

\* len(ValidatorVoteList) == 0: one UPDATE statement outside any transaction
InsertEmpty(p, chainInfoID, indexPointerHeight) ==
    /\ CanCall(p)
    /\ ~LockedByOther(p, PointerKeys(pointers, chainInfoID))
    /\ args' = [args EXCEPT ![p] = InsertArgs(chainInfoID, indexPointerHeight, <<>>)]
    /\ hist' = [hist EXCEPT ![p] = Started(p, args'[p])]
    /\ \E failed \in BOOLEAN :
          IF failed
            THEN Fail(p, "update")
            ELSE /\ pointers' = UpdateIndexPointer(pointers, chainInfoID, indexPointerHeight)
                 /\ pc' = [pc EXCEPT ![p] = "done"]
                 /\ ret' = [ret EXCEPT ![p] = Returned("nil", 0, {})]
                 /\ UNCHANGED <<votes, tx, lock>>

\* repo.RunInTx: the transaction begins
TxBegin(p, chainInfoID, indexPointerHeight, ValidatorVoteList) ==
    /\ CanCall(p)
    /\ Len(ValidatorVoteList) > 0
    /\ BagCardinality(votes) + Len(ValidatorVoteList) <= MaxRows
    /\ args' = [args EXCEPT ![p] =
                  InsertArgs(chainInfoID, indexPointerHeight, ValidatorVoteList)]
    /\ hist' = [hist EXCEPT ![p] = Started(p, args'[p])]
    /\ \E failed \in BOOLEAN :
          IF failed
            THEN Fail(p, "begin")
            ELSE /\ pc' = [pc EXCEPT ![p] = "tx_insert"]
                 /\ tx' = [tx EXCEPT ![p] = NoTx]
                 /\ UNCHANGED <<votes, pointers, lock, ret>>

\* seeded fault: the insert runs on the connection, outside the transaction
TxInsertOutsideTx(p) ==
    /\ pc[p] = "tx_insert"
    /\ UNCHANGED <<args, hist>>
    /\ \E failed \in BOOLEAN :
          IF failed
            THEN Fail(p, "insert")
            ELSE /\ votes' = BulkInsert(votes, args[p].ValidatorVoteList)
                 /\ pc' = [pc EXCEPT ![p] = "tx_update"]
                 /\ UNCHANGED <<tx, pointers, lock, ret>>

\* tx.NewInsert().Model(&ValidatorVoteList).ExcludeColumn("id").Exec(ctx)
TxInsert(p) ==
    /\ pc[p] = "tx_insert"
    /\ UNCHANGED <<args, hist>>
    /\ \E failed \in BOOLEAN :
          IF failed
            THEN Fail(p, "insert")
            ELSE /\ tx' = [tx EXCEPT ![p].rows =
                             BulkInsert(tx[p].rows, args[p].ValidatorVoteList)]
                 /\ pc' = [pc EXCEPT ![p] = "tx_update"]
                 /\ UNCHANGED <<votes, pointers, lock, ret>>

\* seeded fault: the pointer update runs on the connection, outside the transaction
TxUpdateOutsideTx(p) ==
    /\ pc[p] = "tx_update"
    /\ UNCHANGED <<args, hist>>
    /\ \E failed \in BOOLEAN :
          IF failed
            THEN Fail(p, "update")
            ELSE /\ ~LockedByOther(p, PointerKeys(pointers, args[p].chainInfoID))
                 /\ pointers' = UpdateIndexPointer(pointers, args[p].chainInfoID,
                                                   args[p].indexPointerHeight)
                 /\ pc' = [pc EXCEPT ![p] = "tx_commit"]
                 /\ UNCHANGED <<votes, tx, lock, ret>>

\* tx.NewUpdate()...Set("pointer = ?", indexPointerHeight)...Exec(ctx)
TxUpdate(p) ==
    /\ pc[p] = "tx_update"
    /\ UNCHANGED <<args, hist>>
    /\ \E failed \in BOOLEAN :
          IF failed
            THEN Fail(p, "update")
            ELSE /\ ~LockedByOther(p, PointerKeys(pointers, args[p].chainInfoID))
                 /\ lock' = [lock EXCEPT ![p] = PointerKeys(pointers, args[p].chainInfoID)]
                 /\ tx' = [tx EXCEPT ![p].pointer = {args[p].indexPointerHeight}]
                 /\ pc' = [pc EXCEPT ![p] = "tx_commit"]
                 /\ UNCHANGED <<votes, pointers, ret>>

\* the function passed to RunInTx returned nil: commit, unless the deadline passed
TxCommit(p) ==
    /\ pc[p] = "tx_commit"
    /\ UNCHANGED <<args, hist>>
    /\ \E failed \in BOOLEAN :
          IF failed
            THEN Fail(p, "commit")
            ELSE /\ votes' = votes (+) tx[p].rows
                 /\ pointers' = IF tx[p].pointer = {} THEN pointers
                                ELSE UpdateIndexPointer(pointers, args[p].chainInfoID,
                                                        SetMax(tx[p].pointer))
                 /\ tx' = [tx EXCEPT ![p] = NoTx]
                 /\ lock' = [lock EXCEPT ![p] = {}]
                 /\ pc' = [pc EXCEPT ![p] = "done"]
                 /\ ret' = [ret EXCEPT ![p] = Returned("nil", 0, {})]

(* ------------------------------------------------------------------ *)
(* SelectRecentMissValidatorVoteList                                   *)
(* ------------------------------------------------------------------ *)

SelectRecentMissValidatorVoteList(p, chainID) ==
    /\ CanCall(p)
    /\ args' = [args EXCEPT ![p] = SelectArgs(chainID)]
    /\ hist' = [hist EXCEPT ![p] = Started(p, args'[p])]
    /\ pc' = [pc EXCEPT ![p] = "done"]
    /\ \E failed \in BOOLEAN :
          ret' = [ret EXCEPT ![p] =
                    IF failed THEN Returned("query", 0, {})
                    ELSE Returned("nil", 0,
                           RecentMissQuery(votes,
                               MakePartitionTableName(IndexName, chainID)))]
    /\ UNCHANGED <<votes, pointers, lock, tx>>

(* ------------------------------------------------------------------ *)
(* DeleteOldValidatorVoteList                                          *)
(* ------------------------------------------------------------------ *)

\* seeded fault: the parser's error is dropped and the delete runs with its zero duration
DeleteOldIgnoringParseError(p, chainID, retentionPeriod, now) ==
    LET a == DeleteArgs(chainID, retentionPeriod, now)
        partitionTableName == MakePartitionTableName(IndexName, chainID)
    IN  /\ CanCall(p)
        /\ args' = [args EXCEPT ![p] = a]
        /\ hist' = [hist EXCEPT ![p] = Started(p, a)]
        /\ pc' = [pc EXCEPT ![p] = "done"]
        /\ UNCHANGED <<pointers, lock, tx>>
        /\ \E failed \in BOOLEAN :
              IF failed
                THEN /\ ret' = [ret EXCEPT ![p] = Returned("query", 0, {})]
                     /\ UNCHANGED votes
                ELSE /\ votes' = DeleteBefore(votes, partitionTableName, CutoffTime(a))
                     /\ ret' = [ret EXCEPT ![p] =
                                  Returned("nil",
                                      RowsAffected(votes, partitionTableName,
                                                   CutoffTime(a)), {})]

\* seeded fault: the prune also rewinds the chain's pointer
DeleteOldRewindingPointer(p, chainID, retentionPeriod, now) ==
    LET a == DeleteArgs(chainID, retentionPeriod, now)
        partitionTableName == MakePartitionTableName(IndexName, chainID)
    IN  /\ CanCall(p)
        /\ args' = [args EXCEPT ![p] = a]
        /\ hist' = [hist EXCEPT ![p] = Started(p, a)]
        /\ pc' = [pc EXCEPT ![p] = "done"]
        /\ UNCHANGED <<lock, tx>>
        /\ IF ParseRetentionPeriod(retentionPeriod).err # "nil"
             THEN /\ ret' = [ret EXCEPT ![p] =
                               Returned(ParseRetentionPeriod(retentionPeriod).err, 0, {})]
                  /\ UNCHANGED <<votes, pointers>>
             ELSE \E failed \in BOOLEAN :
                    IF failed
                      THEN /\ ret' = [ret EXCEPT ![p] = Returned("query", 0, {})]
                           /\ UNCHANGED <<votes, pointers>>
                      ELSE /\ votes' = DeleteBefore(votes, partitionTableName, CutoffTime(a))
                           /\ pointers' = UpdateIndexPointer(pointers, chainID, 0)
                           /\ ret' = [ret EXCEPT ![p] =
                                        Returned("nil",
                                            RowsAffected(votes, partitionTableName,
                                                         CutoffTime(a)), {})]

DeleteOldValidatorVoteList(p, chainID, retentionPeriod, now) ==
    LET a == DeleteArgs(chainID, retentionPeriod, now)
        partitionTableName == MakePartitionTableName(IndexName, chainID)
    IN  /\ CanCall(p)
        /\ args' = [args EXCEPT ![p] = a]
        /\ hist' = [hist EXCEPT ![p] = Started(p, a)]
        /\ pc' = [pc EXCEPT ![p] = "done"]
        /\ UNCHANGED <<pointers, lock, tx>>
        /\ IF ParseRetentionPeriod(retentionPeriod).err # "nil"
             THEN /\ ret' = [ret EXCEPT ![p] =
                               Returned(ParseRetentionPeriod(retentionPeriod).err, 0, {})]
                  /\ UNCHANGED votes
             ELSE \E failed \in BOOLEAN :
                    IF failed
                      THEN /\ ret' = [ret EXCEPT ![p] = Returned("query", 0, {})]
                           /\ UNCHANGED votes
                      ELSE /\ votes' = DeleteBefore(votes, partitionTableName, CutoffTime(a))
                           /\ ret' = [ret EXCEPT ![p] =
                                        Returned("nil",
                                            RowsAffected(votes, partitionTableName,
                                                         CutoffTime(a)), {})]

(* ------------------------------------------------------------------ *)
(* Specifications                                                      *)
(* ------------------------------------------------------------------ *)

\* the calls callers P make with inputs drawn from the sets of I
Calls(P, I) ==
    \E p \in P :
       \/ \E c \in I.chains, h \in I.heights : InsertEmpty(p, c, h)
       \/ \E c \in I.chains, h \in I.heights, b \in Batches(I.rows, I.batch) :
             TxBegin(p, c, h, b)
       \/ TxInsert(p)
       \/ TxUpdate(p)
       \/ TxCommit(p)
       \/ \E c \in I.chains : SelectRecentMissValidatorVoteList(p, c)
       \/ \E c \in I.chains, r \in I.periods, now \in I.times :
             DeleteOldValidatorVoteList(p, c, r, now)

\* the writer's inputs: batches of one or more rows, rising and falling heights
WriteInputs ==
    [chains  |-> Chains,
     rows    |-> VoteRows(Chains, {1}, {1}, {Missed}, {0}),
     batch   |-> MaxBatch,
     heights |-> PointerHeights,
     periods |-> {"0t"},
     times   |-> {1}]

\* the pruner's inputs: timestamps below, at and above the cutoffs
PruneInputs ==
    [chains  |-> Chains,
     rows    |-> PruneVotes,
     batch   |-> 1,
     heights |-> {1},
     periods |-> RetentionPeriods,
     times   |-> 1..MaxTime]

\* the aggregator's inputs: heights on both sides of the window's edge
AggInputs ==
    [chains  |-> Chains,
     rows    |-> VoteRows(Chains, {1, 2, Window + 1}, {1}, {Missed}, {0}),
     batch   |-> 1,
     heights |-> {1},
     periods |-> {"0t"},
     times   |-> {1}]

\* the rows the summaries are checked on: two validators with one moniker, a
\* third with its own, the three statuses, heights inside and below the window
SummaryVotes ==
    VoteRows({1}, {2}, {1}, {Committed}, {0})
    \cup VoteRows({1}, {Window + 1}, {3}, {Missed}, {0})
    \cup VoteRows({1}, {Window + 1}, {2}, {Proposed}, {0})
    \cup VoteRows({1}, {1}, {2}, {Missed}, {0})

\* the aggregator's inputs for the summary rows: several validators and statuses
SummaryInputs ==
    [chains  |-> {1},
     rows    |-> SummaryVotes,
     batch   |-> 1,
     heights |-> {1},
     periods |-> {"0t"},
     times   |-> {1}]

\* the votes of the end-to-end scenario: one validator of one chain at heights
\* 10 and 11 (missed) and 12 (committed)
ScenarioVotes ==
    VoteRows({1}, {10, 11}, {1}, {Missed}, {0})
    \cup VoteRows({1}, {12}, {1}, {Committed}, {0})

\* the inputs of the end-to-end scenario: each vote written with some height
ScenarioInputs ==
    [chains  |-> {1},
     rows    |-> ScenarioVotes,
     batch   |-> 1,
     heights |-> {10, 11, 12},
     periods |-> {"0t"},
     times   |-> {1}]

\* the row two racing writers insert, and the rows a writer inserts while a
\* pruner is at work: one below the cutoff, one at it
RaceVotes == VoteRows({1}, {1}, {1}, {Missed}, {0})

PruneRaceVotes == VoteRows({1}, {1}, {1}, {Missed}, {0, 1})

\* the pointer height each of the racing writers passes
RaceHeight(p) == IF p = "w1" THEN 1 ELSE 2

\* one caller at a time, writing
Next == Calls(Writers, WriteInputs)

Spec == Init /\ [][Next]_vars

\* one caller at a time, pruning
NextPrune == Calls(Writers, PruneInputs)

SpecPrune == Init /\ [][NextPrune]_vars

\* one caller at a time, aggregating
NextAgg == Calls(Writers, AggInputs)

SpecAgg == Init /\ [][NextAgg]_vars

\* one caller at a time, running the end-to-end scenario
NextScenario == Calls(Writers, ScenarioInputs)

SpecScenario == Init /\ [][NextScenario]_vars

\* two writers of chain 1, each with its own height, their calls and the steps
\* of their transactions interleaved
NextWriters ==
    \E p \in Procs :
       \/ InsertEmpty(p, 1, RaceHeight(p))
       \/ \E b \in Batches(RaceVotes, 1) : TxBegin(p, 1, RaceHeight(p), b)
       \/ TxInsert(p)
       \/ TxUpdate(p)
       \/ TxCommit(p)

SpecWriters == Init /\ [][NextWriters]_vars

\* a writer and a pruner of chain 1, the prune interleaved with the steps of
\* the writer's transaction
NextWriterPruner ==
    \/ \E h \in PointerHeights : InsertEmpty("w1", 1, h)
    \/ \E b \in Batches(PruneRaceVotes, 1) : TxBegin("w1", 1, 1, b)
    \/ TxInsert("w1")
    \/ TxUpdate("w1")
    \/ TxCommit("w1")
    \/ DeleteOldValidatorVoteList("w2", 1, "0t", 1)

SpecWriterPruner == Init /\ [][NextWriterPruner]_vars

\* one caller at a time, summarising the validators of one chain
NextSummary == Calls(Writers, SummaryInputs)

SpecSummary == Init /\ [][NextSummary]_vars

(* ------------------------------------------------------------------ *)
(* Vocabulary of the properties                                        *)
(* ------------------------------------------------------------------ *)

\* p's last call has returned and was op
Finished(p, op) == pc[p] = "done" /\ args[p].op = op

\* the values of the pointer rows of (c, "voteindexer") in the pointer table ptrs
PointerOf(ptrs, c) ==
    {r.pointer : r \in {x \in ptrs : x.chain_info_id = c /\ x.index_name = "voteindexer"}}

\* the pointer rows of ptrs other than those of (c, "voteindexer")
OtherPointers(ptrs, c) ==
    {x \in ptrs : ~(x.chain_info_id = c /\ x.index_name = "voteindexer")}

\* storage s after one successful InsertValidatorVoteList(a), as the contract has it
Applied(s, a) ==
    [votes    |-> s.votes (+) SeqToBag(a.ValidatorVoteList),
     pointers |-> OtherPointers(s.pointers, a.chainInfoID)
                  \cup {[chain_info_id |-> a.chainInfoID, index_name |-> "voteindexer",
                         pointer |-> a.indexPointerHeight] :
                           x \in PointerOf(s.pointers, a.chainInfoID)}]

(* ------------------------------------------------------------------ *)
(* C1  A non-empty InsertValidatorVoteList that returns an error, and  *)
(* one that has not returned yet, leaves storage exactly as it was     *)
(* when the call started: no row of the batch is stored and the        *)
(* pointer keeps its value.  Storage differs from that only once the   *)
(* call has returned nil.                                              *)
(* ------------------------------------------------------------------ *)
C1_FailedInsertLeavesStorage ==
    \A p \in Writers :
       /\ args[p].op = "insert"
       /\ Len(args[p].ValidatorVoteList) > 0
       /\ ~(pc[p] = "done" /\ ret[p].err = "nil")
       => Store = hist[p].pre

\* the deadline passed after both statements ran, with a pointer row to advance
C1_Witness ==
    \E p \in Writers :
       /\ Finished(p, "insert")
       /\ Len(args[p].ValidatorVoteList) > 0
       /\ ret[p].err = "commit"
       /\ PointerOf(pointers, args[p].chainInfoID) # {}
       /\ PointerOf(pointers, args[p].chainInfoID) # {args[p].indexPointerHeight}

(* ------------------------------------------------------------------ *)
(* C2  A non-empty InsertValidatorVoteList that returns nil has stored *)
(* every row of the batch and the pointer of (chainInfoID,             *)
(* "voteindexer") equals pointerHeight.                                *)
(* ------------------------------------------------------------------ *)
C2_SuccessAppliesBoth ==
    \A p \in Writers :
       /\ Finished(p, "insert")
       /\ Len(args[p].ValidatorVoteList) > 0
       /\ ret[p].err = "nil"
       => /\ votes = hist[p].pre.votes (+) SeqToBag(args[p].ValidatorVoteList)
          /\ PointerOf(pointers, args[p].chainInfoID) = {args[p].indexPointerHeight}

\* C2 as amended: the rows are stored, and the pointer row equals pointerHeight
\* when there is one; when there is none, none is created.  Nothing else changes.
C2_SuccessAppliesBothWhereRowExists ==
    \A p \in Writers :
       /\ Finished(p, "insert")
       /\ Len(args[p].ValidatorVoteList) > 0
       /\ ret[p].err = "nil"
       => /\ votes = hist[p].pre.votes (+) SeqToBag(args[p].ValidatorVoteList)
          /\ PointerOf(pointers, args[p].chainInfoID) \subseteq {args[p].indexPointerHeight}
          /\ (PointerOf(pointers, args[p].chainInfoID) = {})
               = (PointerOf(hist[p].pre.pointers, args[p].chainInfoID) = {})
          /\ OtherPointers(pointers, args[p].chainInfoID)
               = OtherPointers(hist[p].pre.pointers, args[p].chainInfoID)

\* a two-row batch was committed and moved the pointer
C2_Witness ==
    \E p \in Writers :
       /\ Finished(p, "insert")
       /\ Len(args[p].ValidatorVoteList) = 2
       /\ ret[p].err = "nil"
       /\ PointerOf(pointers, args[p].chainInfoID) = {args[p].indexPointerHeight}
       /\ PointerOf(hist[p].pre.pointers, args[p].chainInfoID) # {args[p].indexPointerHeight}

(* ------------------------------------------------------------------ *)
(* C3  When InsertValidatorVoteList failed one or more times and was   *)
(* re-invoked with the same arguments until it returned nil, storage   *)
(* is what one successful invocation makes of the storage the first    *)
(* attempt started from: every row of the batch once, no partial state.*)
(* ------------------------------------------------------------------ *)
C3_RetryEqualsOneSuccess ==
    \A p \in Writers :
       /\ Finished(p, "insert")
       /\ hist[p].rel = "retry"
       /\ ret[p].err = "nil"
       => Store = Applied(hist[p].origin, args[p])

\* a retried non-empty batch succeeded after a failure that followed its insert
C3_Witness ==
    \E p \in Writers :
       /\ Finished(p, "insert")
       /\ hist[p].rel = "retry"
       /\ ret[p].err = "nil"
       /\ Len(args[p].ValidatorVoteList) = 2
       /\ PointerOf(pointers, args[p].chainInfoID) = {args[p].indexPointerHeight}
       /\ BagCardinality(votes) = BagCardinality(hist[p].origin.votes) + 2

(* ------------------------------------------------------------------ *)
(* C4  The pointer of (chain, "voteindexer") is monotonically          *)
(* non-decreasing: after any call it is not smaller than it was        *)
(* before the call.                                                    *)
(* ------------------------------------------------------------------ *)
C4_PointerNeverLowered ==
    \A p \in Writers :
       pc[p] = "done" =>
          \A old \in hist[p].pre.pointers, new \in pointers :
             old.chain_info_id = new.chain_info_id /\ old.index_name = new.index_name
             => new.pointer >= old.pointer

\* C4 as amended: a pointer is lowered only by a successful
\* InsertValidatorVoteList whose pointerHeight is below the current pointer of
\* its own (chainInfoID, "voteindexer"), and then to that height; Select and
\* Delete change no pointer.
C4_PointerLoweredOnlyByLowerHeight ==
    \A p \in Writers :
       pc[p] = "done" =>
          /\ args[p].op \in {"select", "delete"} => pointers = hist[p].pre.pointers
          /\ \A old \in hist[p].pre.pointers, new \in pointers :
                /\ old.chain_info_id = new.chain_info_id
                /\ old.index_name = new.index_name
                /\ new.pointer < old.pointer
                => /\ args[p].op = "insert"
                   /\ ret[p].err = "nil"
                   /\ old.chain_info_id = args[p].chainInfoID
                   /\ old.index_name = "voteindexer"
                   /\ args[p].indexPointerHeight < old.pointer
                   /\ new.pointer = args[p].indexPointerHeight

\* a successful insert raised a pointer that had been advanced before
C4_Witness ==
    \E p \in Writers :
       /\ Finished(p, "insert")
       /\ ret[p].err = "nil"
       /\ PointerOf(hist[p].pre.pointers, args[p].chainInfoID) = {1}
       /\ PointerOf(pointers, args[p].chainInfoID) = {2}

(* ------------------------------------------------------------------ *)
(* C5  InsertValidatorVoteList with an empty batch creates no vote     *)
(* rows, and invoked a second time with the same chainInfoID and       *)
(* pointerHeight it leaves the pointer at pointerHeight and storage    *)
(* as the first invocation left it.                                    *)
(* ------------------------------------------------------------------ *)
C5_EmptyInsertTwice ==
    \A p \in Writers :
       /\ Finished(p, "insert")
       /\ Len(args[p].ValidatorVoteList) = 0
       /\ ret[p].err = "nil"
       => /\ votes = hist[p].pre.votes
          /\ hist[p].rel = "repeat"
             => /\ PointerOf(pointers, args[p].chainInfoID) = {args[p].indexPointerHeight}
                /\ Store = hist[p].pre

\* C5 as amended: the pointer is at pointerHeight when its row exists; when it
\* does not exist no row is created.  No vote row is created, no other pointer
\* row changes, and the second invocation changes nothing.
C5_EmptyInsertTwiceWhereRowExists ==
    \A p \in Writers :
       /\ Finished(p, "insert")
       /\ Len(args[p].ValidatorVoteList) = 0
       /\ ret[p].err = "nil"
       => /\ votes = hist[p].pre.votes
          /\ PointerOf(pointers, args[p].chainInfoID) \subseteq {args[p].indexPointerHeight}
          /\ (PointerOf(pointers, args[p].chainInfoID) = {})
               = (PointerOf(hist[p].pre.pointers, args[p].chainInfoID) = {})
          /\ OtherPointers(pointers, args[p].chainInfoID)
               = OtherPointers(hist[p].pre.pointers, args[p].chainInfoID)
          /\ hist[p].rel = "repeat" => Store = hist[p].pre

\* the second of two equal empty-batch calls returned, the pointer at its height
C5_Witness ==
    \E p \in Writers :
       /\ Finished(p, "insert")
       /\ Len(args[p].ValidatorVoteList) = 0
       /\ ret[p].err = "nil"
       /\ hist[p].rel = "repeat"
       /\ PointerOf(pointers, args[p].chainInfoID) = {args[p].indexPointerHeight}
       /\ BagCardinality(votes) > 0

(* ------------------------------------------------------------------ *)
(* Vocabulary of the aggregation and retention properties              *)
(* ------------------------------------------------------------------ *)

\* the rows of chain c in the vote table tbl
RowsOfChain(tbl, c) == BagFilter(tbl, LAMBDA r : r.chain_info_id = c)

\* the rows of chain c in tbl at heights lo..hi
RowsBetween(tbl, c, lo, hi) ==
    BagFilter(tbl, LAMBDA r : r.chain_info_id = c /\ lo <= r.height /\ r.height <= hi)

\* the rows of chain c in tbl with timestamp below t
RowsOlder(tbl, c, t) ==
    BagFilter(tbl, LAMBDA r : r.chain_info_id = c /\ r.timestamp < t)

\* the largest height of chain c in tbl
MaxHeightOf(tbl, c) == SetMax({r.height : r \in DOMAIN RowsOfChain(tbl, c)})

RECURSIVE SummedCounts(_)
\* the rows counted by the summary rows of l
SummedCounts(l) ==
    IF l = {} THEN 0
    ELSE LET x == CHOOSE y \in l : TRUE
         IN  x.missed + x.commited + x.proposed + SummedCounts(l \ {x})

(* ------------------------------------------------------------------ *)
(* C6  SelectRecentMissValidatorVoteList(chainID) aggregates exactly   *)
(* the rows of the chain's partition at heights M - 99 .. M, M the     *)
(* partition's largest height: the summary rows count those rows and   *)
(* no others, and their heights span them; a row at M - 100 is left    *)
(* out and a row at M - 99 is counted.                                 *)
(* ------------------------------------------------------------------ *)
C6_WindowIsLastHundredHeights ==
    \A p \in Writers :
       /\ Finished(p, "select")
       /\ ret[p].err = "nil"
       /\ RowsOfChain(votes, args[p].chainID) # EmptyBag
       => LET c == args[p].chainID
              M == MaxHeightOf(votes, c)
              inside == RowsBetween(votes, c, M - 99, M)
          IN  /\ SummedCounts(ret[p].rvvList) = BagCardinality(inside)
              /\ \A x \in ret[p].rvvList :
                    /\ x.min_height \in {r.height : r \in DOMAIN inside}
                    /\ x.max_height \in {r.height : r \in DOMAIN inside}
              /\ \A r \in DOMAIN inside :
                    \E x \in ret[p].rvvList :
                       x.min_height <= r.height /\ r.height <= x.max_height

\* the partition held rows at M, M - 99 and M - 100 and only the first two counted
C6_Witness ==
    \E p \in Writers :
       /\ Finished(p, "select")
       /\ ret[p].err = "nil"
       /\ LET c == args[p].chainID
              hs == {r.height : r \in DOMAIN RowsOfChain(votes, c)}
          IN  /\ hs # {}
              /\ {SetMax(hs), SetMax(hs) - 99, SetMax(hs) - 100} \subseteq hs
              /\ SummedCounts(ret[p].rvvList) = 2
              /\ \E x \in ret[p].rvvList : x.min_height = SetMax(hs) - 99

(* ------------------------------------------------------------------ *)
(* C7  Over a partition that holds no rows,                            *)
(* SelectRecentMissValidatorVoteList(chainID) returns an empty list    *)
(* with a nil error: the empty partition raises no error of its own.   *)
(* ------------------------------------------------------------------ *)
C7_EmptyPartitionEmptyList ==
    \A p \in Writers :
       /\ Finished(p, "select")
       /\ RowsOfChain(votes, args[p].chainID) = EmptyBag
       => /\ ret[p].rvvList = {}
          /\ ret[p].err \in {"nil", "query"}
          /\ ret[p].deleted = 0

\* a select over an empty partition returned nil while another partition had rows
C7_Witness ==
    \E p \in Writers :
       /\ Finished(p, "select")
       /\ ret[p].err = "nil"
       /\ ret[p].rvvList = {}
       /\ RowsOfChain(votes, args[p].chainID) = EmptyBag
       /\ votes # EmptyBag

(* ------------------------------------------------------------------ *)
(* C8  A successful DeleteOldValidatorVoteList with cutoff             *)
(* T = now + duration removes exactly the rows of the chain's          *)
(* partition with timestamp < T: no remaining row of the partition is  *)
(* older than T, and every row with timestamp >= T, one at T included, *)
(* and every row of another partition is kept as it was.               *)
(* ------------------------------------------------------------------ *)
C8_PruneRemovesExactlyOlderRows ==
    \A p \in Writers :
       /\ Finished(p, "delete")
       /\ ret[p].err = "nil"
       => LET c == args[p].chainID
              T == args[p].now + ParseRetentionPeriod(args[p].retentionPeriod).duration
              before == hist[p].pre.votes
          IN  /\ RowsOlder(votes, c, T) = EmptyBag
              /\ \A r \in DOMAIN before :
                    ~(r.chain_info_id = c /\ r.timestamp < T)
                    => r \in DOMAIN votes /\ votes[r] = before[r]
              /\ DOMAIN votes \subseteq DOMAIN before

\* rows below, at and above the cutoff: the first went, the others stayed
C8_Witness ==
    \E p \in Writers :
       /\ Finished(p, "delete")
       /\ ret[p].err = "nil"
       /\ LET c == args[p].chainID
              T == args[p].now + ParseRetentionPeriod(args[p].retentionPeriod).duration
              before == RowsOfChain(hist[p].pre.votes, c)
          IN  /\ \E r \in DOMAIN before : r.timestamp < T
              /\ \E r \in DOMAIN before : r.timestamp = T /\ r \in DOMAIN votes
              /\ \E r \in DOMAIN before : r.timestamp > T /\ r \in DOMAIN votes

(* ------------------------------------------------------------------ *)
(* C9  The count a successful DeleteOldValidatorVoteList returns is    *)
(* the number of rows of the chain's partition that were older than    *)
(* the cutoff before the call, which is the number of rows it removed. *)
(* ------------------------------------------------------------------ *)
C9_DeletedCountIsRowsRemoved ==
    \A p \in Writers :
       /\ Finished(p, "delete")
       /\ ret[p].err = "nil"
       => LET c == args[p].chainID
              T == args[p].now + ParseRetentionPeriod(args[p].retentionPeriod).duration
          IN  /\ ret[p].deleted = BagCardinality(RowsOlder(hist[p].pre.votes, c, T))
              /\ ret[p].deleted = BagCardinality(hist[p].pre.votes) - BagCardinality(votes)

\* two rows were removed and counted while an old row of another chain stayed
C9_Witness ==
    \E p \in Writers :
       /\ Finished(p, "delete")
       /\ ret[p].err = "nil"
       /\ ret[p].deleted = 2
       /\ \E r \in DOMAIN votes :
             /\ r.chain_info_id # args[p].chainID
             /\ r.timestamp < args[p].now
                   + ParseRetentionPeriod(args[p].retentionPeriod).duration

(* ------------------------------------------------------------------ *)
(* C10  After a successful DeleteOldValidatorVoteList at cutoff T, a   *)
(* further invocation on the chain whose cutoff is not later than T    *)
(* deletes no row, returns 0 and leaves storage unchanged.             *)
(* ------------------------------------------------------------------ *)
C10_RepeatedPruneDeletesNothing ==
    \A p \in Writers :
       /\ Finished(p, "delete")
       /\ ret[p].err = "nil"
       /\ hist[p].rel \in {"repeat", "reprune"}
       => /\ ret[p].deleted = 0
          /\ Store = hist[p].pre

\* the second prune ran with a later clock and an equal cutoff over rows it kept
C10_Witness ==
    \E p \in Writers :
       /\ Finished(p, "delete")
       /\ ret[p].err = "nil"
       /\ hist[p].rel = "reprune"
       /\ ret[p].deleted = 0
       /\ RowsOfChain(votes, args[p].chainID) # EmptyBag
       /\ \E r \in DOMAIN RowsOfChain(votes, args[p].chainID) : r.timestamp < args[p].now

(* ------------------------------------------------------------------ *)
(* C11  When the retention period does not parse,                      *)
(* DeleteOldValidatorVoteList returns the parser's error and a count   *)
(* of 0 without issuing the delete: no vote row and no pointer changes.*)
(* ------------------------------------------------------------------ *)
C11_ParseErrorChangesNothing ==
    \A p \in Writers :
       /\ Finished(p, "delete")
       /\ ParseRetentionPeriod(args[p].retentionPeriod).err # "nil"
       => /\ ret[p].err = ParseRetentionPeriod(args[p].retentionPeriod).err
          /\ ret[p].deleted = 0
          /\ Store = hist[p].pre

\* the period did not parse while the partition held a row older than the clock
C11_Witness ==
    \E p \in Writers :
       /\ Finished(p, "delete")
       /\ ret[p].err = "parse"
       /\ \E r \in DOMAIN RowsOfChain(votes, args[p].chainID) : r.timestamp < args[p].now

(* ------------------------------------------------------------------ *)
(* C16  When no pointer row of (chainInfoID, "voteindexer") exists,    *)
(* the pointer update of InsertValidatorVoteList matches no row and    *)
(* is a silent no-op on both paths: the pointer table after the call   *)
(* is the one before it (no row created, none changed), and a call     *)
(* that returns nil has stored exactly its batch.                      *)
(* ------------------------------------------------------------------ *)
C16_MissingPointerRowIsNoOp ==
    \A p \in Writers :
       /\ Finished(p, "insert")
       /\ PointerOf(hist[p].pre.pointers, args[p].chainInfoID) = {}
       => /\ pointers = hist[p].pre.pointers
          /\ ret[p].err = "nil"
               => votes = hist[p].pre.votes (+) SeqToBag(args[p].ValidatorVoteList)
          /\ ret[p].err # "nil" => votes = hist[p].pre.votes

\* a transactional insert returned nil although its chain has no pointer row
C16_Witness ==
    \E p \in Writers :
       /\ Finished(p, "insert")
       /\ PointerOf(hist[p].pre.pointers, args[p].chainInfoID) = {}
       /\ Len(args[p].ValidatorVoteList) = 2
       /\ ret[p].err = "nil"
       /\ pointers # {}

(* ------------------------------------------------------------------ *)
(* C19  DeleteOldValidatorVoteList applies cutoff = now + duration     *)
(* whatever the sign of the parsed duration: with a zero or positive   *)
(* duration a successful call leaves no row of the chain's partition   *)
(* with timestamp below now + duration, so none timestamped before     *)
(* now, and its count is the number of such rows it found.             *)
(* ------------------------------------------------------------------ *)
C19_NonNegativeDurationDeletesPast ==
    \A p \in Writers :
       /\ Finished(p, "delete")
       /\ ParseRetentionPeriod(args[p].retentionPeriod).err = "nil"
       /\ ParseRetentionPeriod(args[p].retentionPeriod).duration >= 0
       /\ ret[p].err = "nil"
       => LET c == args[p].chainID
              now == args[p].now
              duration == ParseRetentionPeriod(args[p].retentionPeriod).duration
          IN  /\ \A r \in DOMAIN RowsOfChain(votes, c) :
                    r.timestamp >= now + duration /\ r.timestamp >= now
              /\ ret[p].deleted
                   = BagCardinality(RowsOlder(hist[p].pre.votes, c, now + duration))
              /\ ret[p].deleted
                   >= BagCardinality(RowsOlder(hist[p].pre.votes, c, now))

\* a positive duration: a row stamped with the clock reading itself was deleted
C19_Witness ==
    \E p \in Writers :
       /\ Finished(p, "delete")
       /\ ParseRetentionPeriod(args[p].retentionPeriod).err = "nil"
       /\ ParseRetentionPeriod(args[p].retentionPeriod).duration > 0
       /\ ret[p].err = "nil"
       /\ \E r \in DOMAIN RowsOfChain(hist[p].pre.votes, args[p].chainID) :
             r.timestamp = args[p].now /\ r \notin DOMAIN votes
       /\ \E r \in DOMAIN RowsOfChain(hist[p].pre.votes, args[p].chainID) :
             r.timestamp < args[p].now

(* ------------------------------------------------------------------ *)
(* C13  Operations on different chains are independent: when           *)
(* InsertValidatorVoteList or DeleteOldValidatorVoteList for chain A   *)
(* has returned, the vote rows and the pointer of every other chain B  *)
(* are what they were when the call started.                           *)
(* ------------------------------------------------------------------ *)
C13_OtherChainsUnchanged ==
    \A p \in Writers : \A B \in Chains :
       /\ pc[p] = "done"
       /\ args[p].op \in {"insert", "delete"}
       /\ B # (IF args[p].op = "insert" THEN args[p].chainInfoID ELSE args[p].chainID)
       => /\ RowsOfChain(votes, B) = RowsOfChain(hist[p].pre.votes, B)
          /\ PointerOf(pointers, B) = PointerOf(hist[p].pre.pointers, B)

\* C13 for the calls whose batch holds rows of chain A only, and for every delete
C13_OtherChainsUnchangedByOwnRows ==
    \A p \in Writers : \A B \in Chains :
       /\ pc[p] = "done"
       /\ args[p].op \in {"insert", "delete"}
       /\ B # (IF args[p].op = "insert" THEN args[p].chainInfoID ELSE args[p].chainID)
       /\ args[p].op = "insert"
            => \A i \in DOMAIN args[p].ValidatorVoteList :
                  args[p].ValidatorVoteList[i].chain_info_id = args[p].chainInfoID
       => /\ RowsOfChain(votes, B) = RowsOfChain(hist[p].pre.votes, B)
          /\ PointerOf(pointers, B) = PointerOf(hist[p].pre.pointers, B)

\* an insert for chain A returned nil: chain A's pointer moved, chain B got the row
C13_Witness ==
    \E p \in Writers : \E B \in Chains :
       /\ Finished(p, "insert")
       /\ ret[p].err = "nil"
       /\ B # args[p].chainInfoID
       /\ PointerOf(pointers, args[p].chainInfoID) = {args[p].indexPointerHeight}
       /\ PointerOf(hist[p].pre.pointers, args[p].chainInfoID)
            # {args[p].indexPointerHeight}
       /\ RowsOfChain(votes, B) # RowsOfChain(hist[p].pre.votes, B)
       /\ RowsOfChain(votes, args[p].chainInfoID)
            = RowsOfChain(hist[p].pre.votes, args[p].chainInfoID)

\* the rows of chain c in tbl that the query window holds
RowsInWindow(tbl, c) == RowsBetween(tbl, c, MaxHeightOf(tbl, c) - 99, MaxHeightOf(tbl, c))

\* the validators with at least one row of chain c in the query window
ValidatorsInWindow(tbl, c) ==
    {r.validator_hex_address_id : r \in DOMAIN RowsInWindow(tbl, c)}

\* the validator table's moniker of validator v
Moniker(v) == (CHOOSE vi \in ValidatorInfo : vi.id = v).moniker

(* ------------------------------------------------------------------ *)
(* C17  The result of SelectRecentMissValidatorVoteList(chainID) holds *)
(* exactly one summary row per validator with a vote row in the query  *)
(* window: as many summary rows as such validators, each validator     *)
(* with a row of its own.                                              *)
(* ------------------------------------------------------------------ *)
C17_OneRowPerValidator ==
    \A p \in Writers :
       /\ Finished(p, "select")
       /\ ret[p].err = "nil"
       /\ RowsOfChain(votes, args[p].chainID) # EmptyBag
       => LET vs == ValidatorsInWindow(votes, args[p].chainID)
          IN  /\ Cardinality(ret[p].rvvList) = Cardinality(vs)
              /\ \A v \in vs : \E x \in ret[p].rvvList : x.moniker = Moniker(v)

\* C17 as amended: one summary row per moniker borne by a validator of the
\* window; the validators that bear one moniker share its row
C17_OneRowPerMoniker ==
    \A p \in Writers :
       /\ Finished(p, "select")
       /\ ret[p].err = "nil"
       /\ RowsOfChain(votes, args[p].chainID) # EmptyBag
       => LET c == args[p].chainID
              vs == ValidatorsInWindow(votes, c)
              of(x) == {v \in vs : Moniker(v) = x.moniker}
          IN  /\ {x.moniker : x \in ret[p].rvvList} = {Moniker(v) : v \in vs}
              /\ Cardinality(ret[p].rvvList) = Cardinality({Moniker(v) : v \in vs})
              /\ \A x \in ret[p].rvvList :
                    x.missed + x.commited + x.proposed
                      = BagCardinality(BagFilter(RowsInWindow(votes, c),
                            LAMBDA r : r.validator_hex_address_id \in of(x)))

\* three validators in the window, two of one moniker: two summary rows
C17_Witness ==
    \E p \in Writers :
       /\ Finished(p, "select")
       /\ ret[p].err = "nil"
       /\ Cardinality(ValidatorsInWindow(votes, args[p].chainID)) = 3
       /\ Cardinality(ret[p].rvvList) = 2
       /\ \E x \in ret[p].rvvList : x.missed + x.commited + x.proposed = 2

(* ------------------------------------------------------------------ *)
(* C18  Every summary row SelectRecentMissValidatorVoteList returns    *)
(* has M - 100 < min_height <= max_height <= M, M the partition's      *)
(* largest height, and its missed, committed and proposed counts sum   *)
(* to the number of window rows grouped into it, which is at least 1.  *)
(* ------------------------------------------------------------------ *)
C18_SummaryRowBounds ==
    \A p \in Writers :
       /\ Finished(p, "select")
       /\ ret[p].err = "nil"
       => \A x \in ret[p].rvvList :
             LET c == args[p].chainID
                 M == MaxHeightOf(votes, c)
                 grouped == BagFilter(RowsInWindow(votes, c),
                                LAMBDA r : Moniker(r.validator_hex_address_id) = x.moniker)
             IN  /\ M - 100 < x.min_height
                 /\ x.min_height <= x.max_height
                 /\ x.max_height <= M
                 /\ x.missed + x.commited + x.proposed = BagCardinality(grouped)
                 /\ BagCardinality(grouped) >= 1
                 /\ x.missed = BagCardinality(BagFilter(grouped, LAMBDA r : r.status = 1))
                 /\ x.commited = BagCardinality(BagFilter(grouped, LAMBDA r : r.status = 2))
                 /\ x.proposed = BagCardinality(BagFilter(grouped, LAMBDA r : r.status = 3))

\* a row below the window, and a summary row over two heights and two statuses
C18_Witness ==
    \E p \in Writers :
       /\ Finished(p, "select")
       /\ ret[p].err = "nil"
       /\ \E r \in DOMAIN RowsOfChain(votes, args[p].chainID) :
             r.height <= MaxHeightOf(votes, args[p].chainID) - 100
       /\ \E x \in ret[p].rvvList :
             /\ x.min_height < x.max_height
             /\ x.missed = 1
             /\ x.commited = 1
             /\ x.proposed = 0

\* the store's vote rows once the three votes of the scenario are in, each once
ScenarioStored ==
    votes = SeqToBag(<<
       [chain_info_id |-> 1, height |-> 10, validator_hex_address_id |-> 1,
        status |-> 1, timestamp |-> 0],
       [chain_info_id |-> 1, height |-> 11, validator_hex_address_id |-> 1,
        status |-> 1, timestamp |-> 0],
       [chain_info_id |-> 1, height |-> 12, validator_hex_address_id |-> 1,
        status |-> 2, timestamp |-> 0] >>)

\* the one summary row of the scenario
ScenarioSummary ==
    [moniker |-> "alice", max_height |-> 12, min_height |-> 10,
     missed |-> 2, commited |-> 1, proposed |-> 0]

(* ------------------------------------------------------------------ *)
(* C15  End to end: from an empty partition, once the votes of one     *)
(* validator at heights 10 (missed), 11 (missed) and 12 (committed)    *)
(* are in and the insert with pointer height 12 has returned nil, the  *)
(* pointer is 12; SelectRecentMissValidatorVoteList then returns       *)
(* exactly one summary row: missed 2, committed 1, proposed 0, heights *)
(* 10 to 12.                                                           *)
(* ------------------------------------------------------------------ *)
C15_EndToEnd ==
    \A p \in Writers :
       /\ ScenarioStored /\ pc[p] = "done" /\ ret[p].err = "nil"
       => /\ args[p].op = "insert" /\ args[p].indexPointerHeight = 12
               => PointerOf(pointers, args[p].chainInfoID) = {12}
          /\ args[p].op = "select" /\ args[p].chainID = 1
               => ret[p].rvvList = {ScenarioSummary}

\* C15 as amended: the pointer is 12 where the chain has a pointer row; where it
\* has none, none is created; the summary is the same in both cases
C15_EndToEndWherePointerRowExists ==
    \A p \in Writers :
       /\ ScenarioStored /\ pc[p] = "done" /\ ret[p].err = "nil"
       => /\ args[p].op = "insert" /\ args[p].indexPointerHeight = 12
               => /\ PointerOf(pointers, args[p].chainInfoID) \subseteq {12}
                  /\ (PointerOf(pointers, args[p].chainInfoID) = {})
                       = (PointerOf(hist[p].pre.pointers, args[p].chainInfoID) = {})
          /\ args[p].op = "select" /\ args[p].chainID = 1
               => ret[p].rvvList = {ScenarioSummary}

\* the three votes are in, the pointer is 12 and the summary has been returned
C15_Witness ==
    \E p \in Writers :
       /\ ScenarioStored
       /\ Finished(p, "select")
       /\ ret[p].err = "nil"
       /\ args[p].chainID = 1
       /\ PointerOf(pointers, 1) = {12}
       /\ ret[p].rvvList = {ScenarioSummary}

\* the call op of caller p returns in this step
Returns(p, op) ==
    /\ pc'[p] = "done"
    /\ args'[p].op = op
    /\ \/ pc[p] # "done"
       \/ args'[p] # args[p]
       \/ ret'[p] # ret[p]
       \/ hist'[p] # hist[p]

\* this step applies the pointer update of p's insert: the pointer row of its
\* chain, where there is one, takes its height; no other pointer row changes
PointerUpdateApplied(p) ==
    /\ PointerOf(pointers', args'[p].chainInfoID)
         = {args'[p].indexPointerHeight : x \in PointerOf(pointers, args'[p].chainInfoID)}
    /\ OtherPointers(pointers', args'[p].chainInfoID)
         = OtherPointers(pointers, args'[p].chainInfoID)

\* this step leaves caller p with an insert that has returned nil and whose
\* pointer update it applied
InsertApplied(p) ==
    /\ pc'[p] = "done"
    /\ args'[p].op = "insert"
    /\ ret'[p].err = "nil"
    /\ PointerUpdateApplied(p)

(* ------------------------------------------------------------------ *)
(* C12  With two InsertValidatorVoteList calls for one chain running   *)
(* concurrently, the step in which either returns nil leaves the       *)
(* pointer at that call's height, whatever the pointer was (higher or  *)
(* lower) and whatever the other caller is doing, and the pointer      *)
(* changes in no other step: it is the height of the update applied    *)
(* last.                                                               *)
(* ------------------------------------------------------------------ *)
C12_LastWriteWins ==
    [][ /\ \A p \in Procs :
              Returns(p, "insert") /\ ret'[p].err = "nil" => PointerUpdateApplied(p)
        /\ pointers' # pointers => \E p \in Procs : InsertApplied(p) ]_vars

\* two transactional inserts that started from the same pointer both returned
\* nil, and the pointer is the lower of their heights
C12_Witness ==
    \E p \in Procs, q \in Procs :
       /\ Finished(p, "insert") /\ Finished(q, "insert")
       /\ ret[p].err = "nil" /\ ret[q].err = "nil"
       /\ Len(args[p].ValidatorVoteList) > 0 /\ Len(args[q].ValidatorVoteList) > 0
       /\ args[p].chainInfoID = args[q].chainInfoID
       /\ args[p].indexPointerHeight < args[q].indexPointerHeight
       /\ PointerOf(hist[p].pre.pointers, args[p].chainInfoID) = {0}
       /\ PointerOf(hist[q].pre.pointers, args[q].chainInfoID) = {0}
       /\ hist[p].pre.votes = EmptyBag /\ hist[q].pre.votes = EmptyBag
       /\ PointerOf(pointers, args[p].chainInfoID) = {args[p].indexPointerHeight}
       /\ BagCardinality(votes) = 2

(* ------------------------------------------------------------------ *)
(* C14  DeleteOldValidatorVoteList changes no pointer, no lock and no  *)
(* open transaction, and removes only rows of its chain older than its *)
(* cutoff; pointers change only in the step in which an                *)
(* InsertValidatorVoteList returns nil; and in every interleaving with *)
(* a prune the writer's rows appear in that one step, whole, together  *)
(* with its pointer update.                                            *)
(* ------------------------------------------------------------------ *)
C14_PruneKeepsPointersAndAtomicity ==
    [][ /\ \A p \in Procs :
              Returns(p, "delete") => pointers' = pointers /\ lock' = lock /\ tx' = tx
        /\ pointers' # pointers => \E p \in Procs : InsertApplied(p)
        /\ votes' # votes
              => \E p \in Procs :
                    \/ /\ pc'[p] = "done" /\ args'[p].op = "delete" /\ ret'[p].err = "nil"
                       /\ pointers' = pointers /\ lock' = lock /\ tx' = tx
                       /\ DOMAIN votes' \subseteq DOMAIN votes
                       /\ \A r \in DOMAIN votes :
                             \/ r \in DOMAIN votes' /\ votes'[r] = votes[r]
                             \/ /\ r.chain_info_id = args'[p].chainID
                                /\ r.timestamp < Cutoff(args'[p])
                    \/ /\ pc[p] = "tx_commit" /\ InsertApplied(p)
                       /\ votes' = votes (+) SeqToBag(args'[p].ValidatorVoteList) ]_vars

\* a prune removed a row while the other caller's transaction was open, and the
\* pointer, advanced before, stayed where it was
C14_Witness ==
    \E p \in Procs, q \in Procs :
       /\ Finished(p, "delete")
       /\ ret[p].err = "nil" /\ ret[p].deleted >= 1
       /\ pc[q] = "tx_commit"
       /\ args[q].chainInfoID = args[p].chainID
       /\ hist[q].pre.votes # EmptyBag
       /\ votes = EmptyBag
       /\ pointers = hist[p].pre.pointers
       /\ PointerOf(pointers, args[p].chainID) = {2}

====
